---- MODULE Spec2Model ----
(***************************************************************************)
(* MelodyRnn (magenta/js/music_rnn/src/model.ts): a two-layer LSTM that    *)
(* replays an encoded melody and then samples further notes.               *)
(*                                                                         *)
(* Tensors are rows (sequences) and matrices (sequences of rows) of        *)
(* integers.  The numeric library (deeplearn) works on floats; here its    *)
(* squashing functions are quantised to integers (sigmoid to {0,1}, tanh   *)
(* to {-1,0,1}), every other operation is computed as the library does.    *)
(* JavaScript runs one synchronous section at a time: `running` names the  *)
(* call that is inside one, and a call gives up control only at an await.  *)
(***************************************************************************)
EXTENDS Integers, Sequences, FiniteSets, TLC

\* ---------------------------------------------------------------- bounds
MaxLen == 1        \* longest melody, in quantized steps
MaxSteps == 2      \* largest number of extra steps requested
NoteSpan == 1      \* number of pitches of the note range
HiddenSize == 1    \* units per LSTM layer of the checkpoints

\* ------------------------------------------------------------- constants
DEFAULT_MIN_NOTE == 48
\* The source sets 84 (36 pitches); the range is narrowed to NoteSpan
\* pitches so that the vocabulary stays small.
DEFAULT_MAX_NOTE == DEFAULT_MIN_NOTE + NoteSpan

Procs == {1, 2}                      \* concurrent continueSequence calls

VarNames == {"lstmKernel1", "lstmBias1", "lstmKernel2", "lstmBias2",
             "lstmFcB", "lstmFcW"}

\* The checkpoint variable a field is read from.
CheckpointName(f) ==
    CASE f = "lstmKernel1" -> "RNN/MultiRNNCell/Cell0/BasicLSTMCell/Linear/Matrix"
      [] f = "lstmBias1"   -> "RNN/MultiRNNCell/Cell0/BasicLSTMCell/Linear/Bias"
      [] f = "lstmKernel2" -> "RNN/MultiRNNCell/Cell1/BasicLSTMCell/Linear/Matrix"
      [] f = "lstmBias2"   -> "RNN/MultiRNNCell/Cell1/BasicLSTMCell/Linear/Bias"
      [] f = "lstmFcB"     -> "fully_connected/biases"
      [] f = "lstmFcW"     -> "fully_connected/weights"

AllCheckpointNames == {CheckpointName(f) : f \in VarNames}

\* ------------------------------------------------------ the note encoding
NoEvent == -2
NoteOff == -1
Pitches == DEFAULT_MIN_NOTE .. (DEFAULT_MAX_NOTE - 1)
Events == {NoEvent, NoteOff} \cup Pitches

\* Width of one encoded step: the pitches and the two reserved symbols.
VocabSize(minNote, maxNote) == maxNote - minNote + 2

\* The class of an event: the reserved symbols first, then the pitches.
EventIndex(e, minNote) == IF e < 0 THEN e + 2 ELSE e - minNote + 2

OneHot(idx, depth) == [k \in 1..depth |-> IF k - 1 = idx THEN 1 ELSE 0]

\* A note sequence: its events per quantized step, or not quantized at all.
NoteSequences ==
    { [quantized |-> q, events |-> ev] :
        q \in BOOLEAN,
        ev \in UNION { [1..n -> Events] : n \in 0..MaxLen } }

Encodable(seq) == seq.quantized

\* MelodyConverter.toTensor: one one-hot row per quantized step.
ToTensor(seq, numSteps, minNote, maxNote) ==
    [shape |-> <<numSteps, VocabSize(minNote, maxNote)>>,
     rows |-> [s \in 1..numSteps |->
                OneHot(EventIndex(seq.events[s], minNote),
                       VocabSize(minNote, maxNote))]]

TotalQuantizedSteps(seq) == Len(seq.events)

\* ------------------------------------------------------- tensor algebra
\* sum over k <= n of x[k] * m[k][j]
Dot(x, m, j) ==
    LET RECURSIVE S(_)
        S(k) == IF k = 0 THEN 0 ELSE x[k] * m[k][j] + S(k - 1)
    IN S(Len(x))

MatMul(x, m) == [j \in 1..Len(m[1]) |-> Dot(x, m, j)]
Add(x, y) == [j \in 1..Len(x) |-> x[j] + y[j]]
Mul(x, y) == [j \in 1..Len(x) |-> x[j] * y[j]]
Slice(x, from, size) == [j \in 1..size |-> x[from + j]]
Zeros(n) == [j \in 1..n |-> 0]

SigmoidQ(z) == IF z > 0 THEN 1 ELSE 0
TanhQ(z) == IF z > 0 THEN 1 ELSE IF z < 0 THEN -1 ELSE 0
Sigmoid(x) == [j \in 1..Len(x) |-> SigmoidQ(x[j])]
Tanh(x) == [j \in 1..Len(x) |-> TanhQ(x[j])]

\* A variant that counts the classes from 1.
ArgMaxOneBased(x) ==
    CHOOSE a \in 1..Len(x) :
        /\ \A j \in 1..Len(x) : x[a] >= x[j]
        /\ \A j \in 1..(a - 1) : x[j] < x[a]

\* Index (from 0) of the first maximum of a row.
ArgMax(x) ==
    CHOOSE a \in 0..(Len(x) - 1) :
        /\ \A j \in 1..Len(x) : x[a + 1] >= x[j]
        /\ \A j \in 1..a : x[j] < x[a + 1]

\* ------------------------------------------------------- the checkpoints
\* A tensor is known by the checkpoint and the variable it was read from.
Undefined == [ckpt |-> 0, name |-> "undefined"]
Tensor(id, name) == [ckpt |-> id, name |-> name]

\* An entry of a checkpoint variable, between -3 and 3.
Entry(id, salt, r, c) == ((id * 6 + salt * 4 + c * 4 + r * c * 5) % 7) - 3

Matrix(id, salt, rows, cols) ==
    [r \in 1..rows |-> [c \in 1..cols |-> Entry(id, salt, r, c)]]

CheckpointIds == {1, 2}

\* The arrays of the checkpoints.  They are trained for the vocabulary of
\* the converter and have HiddenSize units per layer.
Arrays ==
    LET v == VocabSize(DEFAULT_MIN_NOTE, DEFAULT_MAX_NOTE)
        n == HiddenSize
    IN [id \in CheckpointIds |-> [name \in AllCheckpointNames |->
         CASE name = CheckpointName("lstmKernel1") -> Matrix(id, 0, v + n, 4 * n)
           [] name = CheckpointName("lstmBias1")   -> Matrix(id, 1, 1, 4 * n)[1]
           [] name = CheckpointName("lstmKernel2") -> Matrix(id, 2, n + n, 4 * n)
           [] name = CheckpointName("lstmBias2")   -> Matrix(id, 3, 1, 4 * n)[1]
           [] name = CheckpointName("lstmFcB")     -> Matrix(id, 4, 1, v)[1]
           [] name = CheckpointName("lstmFcW")     -> Matrix(id, 5, n, v)]]

\* The array a tensor holds.
Value(t) == Arrays[t.ckpt][t.name]

\* What the checkpoint URL may serve: nothing, a complete checkpoint, or a
\* checkpoint that lacks one variable.
Sources ==
    {[reachable |-> FALSE, id |-> 1, names |-> {}]}
    \cup {[reachable |-> TRUE, id |-> i, names |-> AllCheckpointNames] : i \in CheckpointIds}
    \cup {[reachable |-> TRUE, id |-> 1, names |-> AllCheckpointNames \ {n}] :
            n \in AllCheckpointNames}

\* CheckpointLoader.getAllVariables: name -> tensor, for the names served.
GetAllVariables(src) == [n \in src.names |-> Tensor(src.id, n)]

\* vars[name] in JavaScript: undefined for a key the object lacks.
Lookup(m, n) == IF n \in DOMAIN m THEN m[n] ELSE Undefined

\* ------------------------------------------------------------- the state
VARIABLES
    source,        \* what checkpointURL serves
    fields,        \* the six tensor fields of the MelodyRnn
    rawVars,       \* the rawVars field
    disposed,      \* the tensors that have been disposed
    initPc,        \* "idle", or "loading" while initialize awaits the loader
    initResult,    \* how the last initialize ended: "none", "resolved", "rejected"
    disposeCalls,  \* how the last dispose() since the last load ended, or "none"
    call,          \* the continueSequence calls
    running        \* the call inside a synchronous section, or 0

vars == <<source, fields, rawVars, disposed, initPc, initResult,
          disposeCalls, call, running>>

Temperatures == {<<>>, <<0>>, <<1>>}         \* absent, 0, a positive one

IdleCall ==
    [pc |-> "idle", seq |-> [quantized |-> TRUE, events |-> <<>>],
     steps |-> 0, temperature |-> <<>>,
     inputs |-> [shape |-> <<0, 0>>, rows |-> <<>>], length |-> 0,
     outputSize |-> 0, i |-> 0, c |-> <<>>, h |-> <<>>, samples |-> <<>>,
     outputs |-> <<>>, pending |-> {}, live |-> 0, error |-> "",
     trace |-> <<>>,
     used |-> [f \in VarNames |-> Undefined], afterDispose |-> FALSE]

Init ==
    /\ source \in Sources
    /\ fields = [f \in VarNames |-> Undefined]
    /\ rawVars = [defined |-> FALSE, vars |-> <<>>]
    /\ disposed = {}
    /\ initPc = "idle"
    /\ initResult = "none"
    /\ disposeCalls = "none"
    /\ call = [p \in Procs |-> IdleCall]
    /\ running = 0

\* ------------------------------------------------------ the library cells
ForgetBias == 1

\* The gates of dl.basicLSTMCell on the pre-activations res.
Gates(forgetBias, res, c) ==
    LET n == Len(res) \div 4
        ig == Slice(res, 0, n)
        jg == Slice(res, n, n)
        fg == Slice(res, 2 * n, n)
        og == Slice(res, 3 * n, n)
        newC == Add(Mul(c, Sigmoid([k \in 1..n |-> forgetBias + fg[k]])),
                    Mul(Sigmoid(ig), Tanh(jg)))
        newH == Mul(Tanh(newC), Sigmoid(og))
    IN <<newC, newH>>

\* dl.basicLSTMCell: the new <<c, h>> of one layer.
BasicLSTMCell(forgetBias, kernel, bias, data, c, h) ==
    CHOOSE o \in {Gates(forgetBias, res, c) :
                     res \in {Add(MatMul(data \o h, kernel), bias)}} : TRUE

\* A variant that leaves the state of layer 2 as it was.
MultiRNNCellFirstOnly(flds, data, c, h) ==
    LET o1 == BasicLSTMCell(ForgetBias, Value(flds["lstmKernel1"]),
                            Value(flds["lstmBias1"]), data, c[1], h[1])
    IN [c |-> <<o1[1], c[2]>>, h |-> <<o1[2], h[2]>>]

\* dl.multiRNNCell over [lstm1, lstm2]: layer 2 reads the new h of layer 1.
MultiRNNCell(flds, data, c, h) ==
    CHOOSE o \in UNION {
        {[c |-> <<o1[1], o2[1]>>, h |-> <<o1[2], o2[2]>>] :
            o2 \in {BasicLSTMCell(ForgetBias, Value(flds["lstmKernel2"]),
                                  Value(flds["lstmBias2"]), o1[2], c[2], h[2])}} :
        o1 \in {BasicLSTMCell(ForgetBias, Value(flds["lstmKernel1"]),
                              Value(flds["lstmBias1"]), data, c[1], h[1])}} : TRUE

\* h[1].matMul(this.lstmFcW).add(this.lstmFcB)
Logits(flds, h) == Add(MatMul(h[2], Value(flds["lstmFcW"])), Value(flds["lstmFcB"]))

\* A variant that only asks whether a temperature was passed.
TruthyDefined(temperature) == Len(temperature) = 1

\* `temperature ? ... : ...`: absent and 0 are falsy.
Truthy(temperature) == Len(temperature) = 1 /\ temperature[1] # 0

\* logits.div(dl.scalar(t)): the quotients, kept as fractions.
Div(x, t) == [j \in 1..Len(x) |-> <<x[j], t>>]

\* dl.multinomial(., 1): every class may be drawn.
Multinomial(x) == 0..(Len(x) - 1)

\* A variant that draws whatever the temperature.
SampledOutputDraw(logits, temperature) ==
    {[idx |-> a, op |-> "multinomial", divisor |-> temperature,
      from |-> Div(logits, 1)] : a \in Multinomial(Div(logits, 1))}

\* Lines 123-126: the indices that may be sampled from the logits, each with
\* the operation that selects it and the row it is selected from.
SampledOutput(logits, temperature) ==
    IF Truthy(temperature)
    THEN {[idx |-> a, op |-> "multinomial", divisor |-> temperature,
           from |-> Div(logits, temperature[1])] :
            a \in Multinomial(Div(logits, temperature[1]))}
    ELSE {[idx |-> ArgMax(logits), op |-> "argMax", divisor |-> <<>>,
           from |-> logits]}

\* A tensor the library can compute with.
Usable(t) == t # Undefined /\ t \notin disposed

\* ------------------------------------------------------ continueSequence
Free(p) == call[p].pc = "idle"
InFlight(p) == ~Free(p)

\* A variant that keeps the recurrent state on the instance: a call made
\* while another is in flight starts from the state that one has left.
InitialStateShared(p, flds) ==
    IF \E q \in Procs : q # p /\ InFlight(q)
    THEN LET q == CHOOSE q \in Procs : q # p /\ InFlight(q)
         IN [c |-> call[q].c, h |-> call[q].h]
    ELSE LET n1 == Len(Value(flds["lstmBias1"])) \div 4
             n2 == Len(Value(flds["lstmBias2"])) \div 4
         IN [c |-> <<Zeros(n1), Zeros(n2)>>, h |-> <<Zeros(n1), Zeros(n2)>>]

\* The zero states call p starts from (lines 98-105).
InitialState(p, flds) ==
    LET n1 == Len(Value(flds["lstmBias1"])) \div 4
        n2 == Len(Value(flds["lstmBias2"])) \div 4
    IN [c |-> <<Zeros(n1), Zeros(n2)>>, h |-> <<Zeros(n1), Zeros(n2)>>]

\* A variant that runs the loop once more.
LoopCondInclusive(i, length, steps) == i <= length + steps

\* i < length + steps
LoopCond(i, length, steps) == i < length + steps

\* The transient tensors the code creates and keeps no way to release:
\* before a failure of the prelude, in the whole prelude, and in one pass of
\* the loop.  Only the tensors the code names are counted.
PreludeTensors(err) ==
    IF err = "ConversionError" THEN 0       \* line 91 threw
    ELSE IF err = "TypeError" THEN 2        \* inputs, forgetBias at least
    ELSE 6                                  \* and the two c, the two h
StepTensors(teacher) ==
    IF teacher THEN 5                       \* the frame, the new c and h
    ELSE 7                                  \* and the logits, the sample

Failed(seq, steps, temperature, err) ==
    [IdleCall EXCEPT !.pc = "failed", !.error = err, !.seq = seq,
                     !.steps = steps, !.temperature = temperature,
                     !.live = PreludeTensors(err),
                     !.afterDispose = disposeCalls # "none"]

\* A variant that does not look at the conversion.
PreludeUnchecked(seq, flds) ==
    IF flds["lstmBias1"] = Undefined \/ flds["lstmBias2"] = Undefined
    THEN "TypeError"
    ELSE "ok"

\* Lines 89-105: what stops the call before the loop, if anything.  The
\* conversion of line 91 comes first, then the reads of the bias shapes.
Prelude(seq, flds) ==
    IF ~Encodable(seq) THEN "ConversionError"
    ELSE IF flds["lstmBias1"] = Undefined \/ flds["lstmBias2"] = Undefined
    THEN "TypeError"
    ELSE "ok"

\* Lines 85-115: the call up to the loop.
ContinueSequence(p, seq, steps, temperature) ==
    /\ running = 0
    /\ Free(p)
    /\ \A q \in Procs : q < p => InFlight(q)
    /\ IF Prelude(seq, fields) # "ok"
       THEN /\ call' = [call EXCEPT ![p] =
                  Failed(seq, steps, temperature, Prelude(seq, fields))]
            /\ running' = p
       ELSE LET inputs == ToTensor(seq, TotalQuantizedSteps(seq),
                                   DEFAULT_MIN_NOTE, DEFAULT_MAX_NOTE)
                st == InitialState(p, fields)
            IN /\ call' = [call EXCEPT ![p] =
                     [pc |-> "loop", seq |-> seq, steps |-> steps,
                      temperature |-> temperature, inputs |-> inputs,
                      length |-> inputs.shape[1], outputSize |-> inputs.shape[2],
                      i |-> 0, c |-> st.c, h |-> st.h, samples |-> <<>>,
                      outputs |-> <<>>, pending |-> {},
                      live |-> PreludeTensors("ok"), error |-> "",
                      trace |-> <<>>,
                      used |-> fields, afterDispose |-> disposeCalls # "none"]]
               /\ running' = p
    /\ UNCHANGED <<source, fields, rawVars, disposed, initPc, initResult, disposeCalls>>

\* A variant that keeps feeding the melody's last row.
NextInputNoFeedback(inputs, i, length, idx, outputSize) ==
    IF i < length
    THEN Slice(inputs.rows[i + 1], 0, outputSize)
    ELSE IF length > 0 THEN Slice(inputs.rows[length], 0, outputSize)
    ELSE Zeros(outputSize)

\* Lines 117-127: the frame of step i, a row of the encoded melody or the
\* one-hot row of the sampled index.
NextInput(inputs, i, length, idx, outputSize) ==
    IF i < length
    THEN Slice(inputs.rows[i + 1], 0, outputSize)
    ELSE OneHot(idx, outputSize)

\* A variant that stays with the melody one step longer.
TeacherForcingThrough(i, length) == i <= length

\* Line 117: the steps that take their input from the melody.
TeacherForcing(i, length) == i < length

\* Lines 116-133: one pass of the loop body.
LoopStep(p) ==
    LET cl == call[p]
        teacher == TeacherForcing(cl.i, cl.length)
    IN
    /\ running = p
    /\ cl.pc = "loop"
    /\ LoopCond(cl.i, cl.length, cl.steps)
    /\ IF ~teacher /\ ~(Usable(fields["lstmFcW"]) /\ Usable(fields["lstmFcB"]))
       THEN /\ call' = [call EXCEPT ![p].pc = "failed", ![p].error = "TypeError"]
            /\ running' = p
       ELSE IF ~(\A f \in {"lstmKernel1", "lstmBias1", "lstmKernel2", "lstmBias2"} :
                    Usable(fields[f]))
       THEN /\ call' = [call EXCEPT ![p].pc = "failed", ![p].error = "TypeError"]
            /\ running' = p
       ELSE /\ \E logits \in {IF teacher THEN <<>> ELSE Logits(fields, cl.h)} :
               \E s \in (IF teacher
                         THEN {[idx |-> -1, op |-> "slice", divisor |-> <<>>,
                                from |-> <<>>]}
                         ELSE SampledOutput(logits, cl.temperature)) :
               \E nextInput \in {NextInput(cl.inputs, cl.i, cl.length, s.idx,
                                           cl.outputSize)} :
               \E output \in {MultiRNNCell(fields, nextInput, cl.c, cl.h)} :
                LET entry ==
                        [phase |-> IF teacher THEN "TeacherForcing" ELSE "SelfFeeding",
                         frame |-> nextInput,
                         logits |-> logits,
                         idx |-> s.idx, op |-> s.op, divisor |-> s.divisor]
                IN call' = [call EXCEPT
                       ![p].samples = IF teacher THEN @ ELSE Append(@, s.idx),
                       ![p].c = output.c,
                       ![p].h = output.h,
                       ![p].i = @ + 1,
                       ![p].live = @ + StepTensors(teacher),
                       ![p].trace = Append(@, entry)]
            /\ running' = p
    /\ UNCHANGED <<source, fields, rawVars, disposed, initPc, initResult, disposeCalls>>

\* A variant that asks for the values of all the samples left at once.
RequestedAll(samples, k) == k..Len(samples)

\* Lines 136-137: the sample whose data() is awaited when k - 1 values
\* have been pushed.
Requested(samples, k) == IF k <= Len(samples) THEN {k} ELSE {}

\* A variant that puts the value in front.
PushFront(outputs, v) == <<v>> \o outputs

\* A variant that drops the value.
PushNothing(outputs, v) == outputs

\* outputs.push(value)
Push(outputs, v) == Append(outputs, v)

\* A variant that releases the parameters when the loop is over.
LoopExitDisposing(p) ==
    /\ running = p
    /\ call[p].pc = "loop"
    /\ ~(call[p].i < call[p].length + call[p].steps)
    /\ call' = [call EXCEPT ![p].pc = IF call[p].samples = <<>>
                                      THEN "done" ELSE "await"]
    /\ running' = IF call[p].samples = <<>> THEN p ELSE 0
    /\ disposed' = disposed \cup {fields[f] : f \in VarNames}
    /\ UNCHANGED <<source, fields, rawVars, initPc, initResult, disposeCalls>>

\* Lines 133-139 up to the first await: with no sample the call returns [].
LoopExit(p) ==
    /\ running = p
    /\ call[p].pc = "loop"
    /\ ~LoopCond(call[p].i, call[p].length, call[p].steps)
    /\ call' = [call EXCEPT ![p].pc = IF call[p].samples = <<>>
                                      THEN "done" ELSE "await",
                            ![p].pending = Requested(call[p].samples, 1)]
    /\ running' = IF call[p].samples = <<>> THEN p ELSE 0
    /\ UNCHANGED <<source, fields, rawVars, disposed, initPc, initResult, disposeCalls>>

\* Lines 136-139: sample.data() resolves, its value is pushed, and the call
\* awaits the next sample or returns.
SampleData(p) ==
    /\ running = 0
    /\ call[p].pc = "await"
    /\ LET k == Len(call[p].outputs) + 1
           outputs == Push(call[p].outputs, call[p].samples[k])
           last == k = Len(call[p].samples)
       IN /\ call' = [call EXCEPT
                 ![p].outputs = outputs,
                 ![p].pending = (@ \ {k}) \cup Requested(call[p].samples, k + 1),
                 ![p].pc = IF last THEN "done" ELSE "await"]
          /\ running' = IF last THEN p ELSE 0
    /\ UNCHANGED <<source, fields, rawVars, disposed, initPc, initResult,
                   disposeCalls>>

\* The promise settles: the caller takes the result, or the error, and the
\* synchronous section ends.
Return(p) ==
    /\ running = p
    /\ call[p].pc \in {"done", "failed"}
    /\ call' = [call EXCEPT ![p] = IdleCall]
    /\ running' = 0
    /\ UNCHANGED <<source, fields, rawVars, disposed, initPc, initResult,
                   disposeCalls>>

\* ------------------------------------------------- initialize and dispose
\* Lines 70-72: initialize() up to the await of the loader.
Initialize ==
    /\ running = 0
    /\ initPc = "idle"
    /\ initPc' = "loading"
    /\ UNCHANGED <<source, fields, rawVars, disposed, initResult, disposeCalls,
                   call, running>>

\* Lines 72-83: the loader resolves and the six fields are assigned.
GetAllVariablesResolve ==
    /\ running = 0
    /\ initPc = "loading"
    /\ source.reachable
    /\ LET loaded == GetAllVariables(source)
       IN fields' = [f \in VarNames |-> Lookup(loaded, CheckpointName(f))]
    /\ initPc' = "idle"
    /\ initResult' = "resolved"
    /\ disposeCalls' = "none"
    /\ UNCHANGED <<source, rawVars, disposed, call, running>>

\* Line 72: the loader rejects and initialize() rejects with it.
GetAllVariablesReject ==
    /\ running = 0
    /\ initPc = "loading"
    /\ ~source.reachable
    /\ initPc' = "idle"
    /\ initResult' = "rejected"
    /\ UNCHANGED <<source, fields, rawVars, disposed, disposeCalls, call, running>>

\* Lines 62-64: Object.keys(this.rawVars) throws on an undefined rawVars.
Dispose ==
    /\ running = 0
    /\ IF rawVars.defined
       THEN /\ disposed' = disposed \cup {rawVars.vars[n] : n \in DOMAIN rawVars.vars}
            /\ disposeCalls' = "returned"
       ELSE /\ disposed' = disposed
            /\ disposeCalls' = "TypeError"
    /\ UNCHANGED <<source, fields, rawVars, initPc, initResult, call, running>>

NoCallInFlight == \A p \in Procs : Free(p)

\* One caller: a call is made when the last one has settled.
Enter ==
    /\ running = 0
    /\ NoCallInFlight
    /\ \E p \in Procs, seq \in NoteSequences, steps \in 0..MaxSteps,
          temperature \in Temperatures :
           ContinueSequence(p, seq, steps, temperature)

Next ==
    \/ Enter
    \/ \E p \in Procs : LoopStep(p)
    \/ \E p \in Procs : LoopExit(p)
    \/ \E p \in Procs : SampleData(p)
    \/ \E p \in Procs : Return(p)
    \/ Initialize
    \/ GetAllVariablesResolve
    \/ GetAllVariablesReject
    \/ Dispose

Spec == Init /\ [][Next]_vars

\* ------------------------------------------------------------ properties
Falsy(temperature) == temperature \in {<<>>, <<0>>}
AllPresent(flds) == \A f \in VarNames : flds[f] # Undefined

\* C1: a call that completes returns exactly `steps` elements, never
\* length + steps; for steps = 0 the result is empty.
C1_ReturnsExactlySteps ==
    \A p \in Procs :
        call[p].pc = "done" =>
            /\ Len(call[p].outputs) = call[p].steps
            /\ (call[p].steps = 0 => call[p].outputs = <<>>)

C1_Witness ==
    \E p \in Procs :
        /\ call[p].pc = "done"
        /\ call[p].length > 0
        /\ call[p].steps = MaxSteps
        /\ Truthy(call[p].temperature)
        /\ Len(call[p].outputs) = MaxSteps

C3_UseAfterDisposeFails ==
    \A p \in Procs :
        (call[p].afterDispose /\ AllPresent(call[p].used)) => call[p].pc # "done"

\* C4: on a model whose initialize() has completed, dispose() releases all
\* six parameter tensors.
C4_DisposeReleasesAll ==
    (disposeCalls # "none" /\ initResult = "resolved" /\ AllPresent(fields))
        => \A f \in VarNames : fields[f] \in disposed

FirstMax(x) ==
    CHOOSE b \in 0..(Len(x) - 1) :
        /\ \A j \in 1..Len(x) : x[b + 1] >= x[j]
        /\ \A j \in 1..b : x[j] < x[b + 1]

RECURSIVE GreedyFrom(_, _, _, _, _, _)
GreedyFrom(flds, rows, total, i, st, out) ==
    IF i >= total THEN out
    ELSE IF i < Len(rows)
    THEN LET nx == MultiRNNCell(flds, rows[i + 1], st.c, st.h)
         IN GreedyFrom(flds, rows, total, i + 1, nx, out)
    ELSE LET lg == Logits(flds, st.h)
             a == FirstMax(lg)
             nx == MultiRNNCell(flds,
                       OneHot(a, VocabSize(DEFAULT_MIN_NOTE, DEFAULT_MAX_NOTE)),
                       st.c, st.h)
         IN GreedyFrom(flds, rows, total, i + 1, nx, Append(out, a))

Greedy(flds, seq, steps) ==
    LET rows == ToTensor(seq, TotalQuantizedSteps(seq),
                         DEFAULT_MIN_NOTE, DEFAULT_MAX_NOTE).rows
        z == <<Zeros(Len(Value(flds["lstmBias1"])) \div 4),
               Zeros(Len(Value(flds["lstmBias2"])) \div 4)>>
    IN GreedyFrom(flds, rows, Len(rows) + steps, 0, [c |-> z, h |-> z], <<>>)

\* C6: with temperature unset or 0, the result of a call is determined by
\* the weight set, the melody and the steps alone, so that two calls with
\* the same ones return identical results whatever ran before or between.
C6_Deterministic ==
    \A p \in Procs :
        (call[p].pc = "done" /\ Falsy(call[p].temperature)) =>
            call[p].outputs = Greedy(call[p].used, call[p].seq, call[p].steps)

C6_Witness ==
    \E p \in Procs :
        /\ call[p].pc = "done"
        /\ Falsy(call[p].temperature)
        /\ call[p].length > 0
        /\ Len(call[p].outputs) = MaxSteps
        /\ call[p].outputs[1] # call[p].outputs[MaxSteps]

C8_NoStepBeforeFullLoad ==
    \A p \in Procs :
        Len(call[p].trace) > 0 =>
            (initResult = "resolved" /\ AllPresent(fields))

\* C9: a load that does not find every required parameter fails and leaves
\* the model without parameters: never some of them and not others.
C9_LoadAllOrNothing ==
    /\ initResult = "resolved" => AllPresent(fields)
    /\ (\E f \in VarNames : fields[f] # Undefined) => AllPresent(fields)

\* C10: no step of a continueSequence call changes the weight store: the
\* six parameter tensors stay the same and are not released.
C10_WeightsReadOnly ==
    [][call' # call =>
         (fields' = fields /\ disposed' = disposed /\ rawVars' = rawVars)]_vars

C10_Witness ==
    \E p \in Procs :
        /\ call[p].pc = "done"
        /\ Len(call[p].outputs) = MaxSteps
        /\ AllPresent(fields)
        /\ fields = call[p].used
        /\ \A f \in VarNames : Usable(fields[f])

\* C11: when a call has ended, on the normal path or on a failure, every
\* transient tensor it created (the encoded melody, the forget-bias scalar,
\* the recurrent states, the frames, the logits, the samples) has been
\* released, so that none of them outlives the call.
C11_TransientsReleased ==
    \A p \in Procs :
        call[p].pc \in {"done", "failed"} => call[p].live = 0

\* ------------------------------------------------- several callers at once
\* initialize() is called once, on a source that serves every variable.
InitLoadable ==
    /\ Init
    /\ source.reachable
    /\ source.names = AllCheckpointNames

InitializeOnce ==
    /\ initResult = "none"
    /\ Initialize

\* Callers that do not wait for one another: a call may be made whenever no
\* JavaScript is running, that is at the await of a call in flight as well.
\* These callers sample with a temperature.
SamplingTemperatures == {t \in Temperatures : Truthy(t)}

EnterSampling ==
    /\ running = 0
    /\ \E p \in Procs :
          /\ Free(p)
          /\ \E seq \in NoteSequences, steps \in 0..MaxSteps,
                temperature \in SamplingTemperatures :
                 ContinueSequence(p, seq, steps, temperature)

NextSampling ==
    \/ EnterSampling
    \/ \E p \in Procs : LoopStep(p)
    \/ \E p \in Procs : LoopExit(p)
    \/ \E p \in Procs : SampleData(p)
    \/ \E p \in Procs : Return(p)
    \/ InitializeOnce
    \/ GetAllVariablesResolve

SpecSampling == InitLoadable /\ [][NextSampling]_vars

\* C12: with a temperature above 0, two calls with the same weights, melody,
\* steps and temperature draw the same sequence of samples (the code gives
\* the caller no seed to fix, so the draws of both calls are the ones of the
\* same unseeded generator).
C12_SameDraws ==
    \A p, q \in Procs :
        ( /\ call[p].pc \in {"await", "done"}
          /\ call[q].pc \in {"await", "done"}
          /\ Truthy(call[p].temperature)
          /\ call[p].temperature = call[q].temperature
          /\ call[p].used = call[q].used
          /\ call[p].seq = call[q].seq
          /\ call[p].steps = call[q].steps )
        => call[p].samples = call[q].samples

\* Callers that do not wait for one another and use the arg-max path, by
\* leaving the temperature out.
ArgMaxTemperatures == {t \in Temperatures : t = <<>>}

EnterConcurrent ==
    /\ running = 0
    /\ \E p \in Procs :
          /\ Free(p)
          /\ \E seq \in NoteSequences, steps \in 0..MaxSteps,
                temperature \in ArgMaxTemperatures :
                 ContinueSequence(p, seq, steps, temperature)

NextConcurrent ==
    \/ EnterConcurrent
    \/ \E p \in Procs : LoopStep(p)
    \/ \E p \in Procs : LoopExit(p)
    \/ \E p \in Procs : SampleData(p)
    \/ \E p \in Procs : Return(p)
    \/ InitializeOnce
    \/ GetAllVariablesResolve

SpecConcurrent == InitLoadable /\ [][NextConcurrent]_vars

\* What each arg-max call returns when it runs alone on the weights of
\* checkpoint id, tabulated once.
LoadedFields(id) == [f \in VarNames |-> Tensor(id, CheckpointName(f))]
RunAlone ==
    [id \in CheckpointIds |->
        [seq \in {s \in NoteSequences : Encodable(s)} |->
            [steps \in 0..MaxSteps |-> Greedy(LoadedFields(id), seq, steps)]]]

\* C13: under every interleaving of two arg-max calls at their awaits, each
\* call starts from its own fresh zero state and empty sample list, and its
\* samples and its result are the ones it gives when run alone.
C13_CallsIsolated ==
    \A p \in Procs :
        /\ (call[p].pc = "loop" /\ call[p].i = 0) =>
              /\ call[p].samples = <<>>
              /\ \A l \in 1..2 :
                    /\ call[p].c[l] = Zeros(Len(call[p].c[l]))
                    /\ call[p].h[l] = Zeros(Len(call[p].h[l]))
        /\ call[p].pc \in {"await", "done"} =>
              /\ call[p].used = LoadedFields(source.id)
              /\ call[p].samples =
                    RunAlone[source.id][call[p].seq][call[p].steps]
        /\ call[p].pc = "done" => call[p].outputs = call[p].samples

\* Two calls in flight at once with different results: the second ran its
\* whole loop while the first was awaiting its values.
C13_Witness ==
    /\ call[1].pc = "await"
    /\ call[2].pc = "done"
    /\ Len(call[1].samples) = MaxSteps
    /\ Len(call[2].samples) = MaxSteps
    /\ call[1].outputs # <<>>
    /\ call[1].samples # call[2].samples

\* The number of places of a trace where a step of phase a is followed by
\* a step of phase b.
Moves(trace, a, b) ==
    Cardinality({k \in 1..(Len(trace) - 1) :
                    trace[k].phase = a /\ trace[k + 1].phase = b})

C15_OneSamplePerSelfFeedingStep ==
    \A p \in Procs :
        LET t == call[p].trace
            L == call[p].length
            smp == call[p].samples
            out == call[p].outputs
        IN /\ Len(smp) =
                 Cardinality({k \in 1..Len(t) : t[k].phase = "SelfFeeding"})
           /\ \A k \in 1..Len(t) :
                 t[k].phase = "TeacherForcing" => t[k].idx = -1
           /\ \A j \in 1..Len(smp) :
                 /\ t[L + j].phase = "SelfFeeding"
                 /\ smp[j] = t[L + j].idx
           /\ Len(out) <= Len(smp)
           /\ \A j \in 1..Len(out) : out[j] = smp[j]
           /\ call[p].pc = "done" => out = smp

C15_Witness ==
    \E p \in Procs :
        /\ call[p].pc = "done"
        /\ call[p].length = MaxLen
        /\ Truthy(call[p].temperature)
        /\ Len(call[p].outputs) = MaxSteps
        /\ call[p].outputs[1] > call[p].outputs[MaxSteps]
        /\ call[p].trace[MaxLen + 1].idx = call[p].outputs[1]

\* C16: a teacher-forcing step i feeds the cell row i of the encoded
\* melody; a self-feeding step computes the logits from the layer-2 hidden
\* state the previous step has left, selects an index from them, feeds the
\* cell the one-hot row of that index over the vocabulary and appends the
\* same index to the samples.
C16_SampleFedBack ==
    [][\A p \in Procs :
          (call[p].pc = "loop" /\ call'[p].i = call[p].i + 1) =>
              LET cl == call[p]
                  e == call'[p].trace[call'[p].i]
                  V == VocabSize(DEFAULT_MIN_NOTE, DEFAULT_MAX_NOTE)
              IN IF cl.i < cl.length
                 THEN /\ e.frame = ToTensor(cl.seq, TotalQuantizedSteps(cl.seq),
                                            DEFAULT_MIN_NOTE,
                                            DEFAULT_MAX_NOTE).rows[cl.i + 1]
                      /\ call'[p].samples = cl.samples
                 ELSE /\ e.logits = Logits(cl.used, cl.h)
                      /\ e.idx \in 0..(V - 1)
                      /\ Falsy(cl.temperature) => e.idx = FirstMax(e.logits)
                      /\ Len(e.frame) = V
                      /\ \A j \in 1..V : e.frame[j] = IF j - 1 = e.idx THEN 1 ELSE 0
                      /\ call'[p].samples = Append(cl.samples, e.idx)
      ]_vars

C16_Witness ==
    \E p \in Procs :
        /\ call[p].pc = "loop"
        /\ call[p].length = MaxLen
        /\ call[p].i = MaxLen + MaxSteps
        /\ call[p].samples[MaxSteps] > 0
        /\ call[p].trace[call[p].i].idx = call[p].samples[MaxSteps]
        /\ call[p].trace[call[p].i].frame[call[p].samples[MaxSteps] + 1] = 1
        /\ call[p].trace[call[p].i - 1].logits # call[p].trace[call[p].i].logits

\* The state after one cell update of layer 1 on the frame and one of
\* layer 2 on the new h of layer 1.
OneUpdatePerLayer(flds, frame, c, h) ==
    CHOOSE o \in UNION {
        {[c |-> <<o1[1], o2[1]>>, h |-> <<o1[2], o2[2]>>] :
            o2 \in {BasicLSTMCell(ForgetBias, Value(flds["lstmKernel2"]),
                                  Value(flds["lstmBias2"]), o1[2], c[2], h[2])}} :
        o1 \in {BasicLSTMCell(ForgetBias, Value(flds["lstmKernel1"]),
                              Value(flds["lstmBias1"]), frame, c[1], h[1])}} : TRUE

\* C17: a call enters its loop with c and h of both layers all zero,
\* whatever ran before; each loop step replaces the state of layer 1 by one
\* cell update on the frame and the state of layer 2 by one cell update on
\* the new h of layer 1; nothing else changes the state of a call.
C17_FreshState ==
    [][\A p \in Procs :
          LET cl == call[p]
              nx == call'[p]
          IN /\ (cl.pc # "loop" /\ nx.pc = "loop") =>
                   LET n1 == Len(Value(nx.used["lstmBias1"])) \div 4
                       n2 == Len(Value(nx.used["lstmBias2"])) \div 4
                   IN /\ nx.i = 0
                      /\ nx.c = <<Zeros(n1), Zeros(n2)>>
                      /\ nx.h = <<Zeros(n1), Zeros(n2)>>
             /\ (cl.pc = "loop" /\ nx.i = cl.i + 1) =>
                   [c |-> nx.c, h |-> nx.h] =
                       OneUpdatePerLayer(cl.used, nx.trace[nx.i].frame, cl.c, cl.h)
             /\ (cl.pc \in {"loop", "await"} /\ nx.pc # "idle" /\ nx.i = cl.i) =>
                   (nx.c = cl.c /\ nx.h = cl.h)
      ]_vars

C17_Witness ==
    \E p \in Procs :
        /\ call[p].pc = "loop"
        /\ call[p].length = MaxLen
        /\ call[p].i = MaxLen + MaxSteps
        /\ \A l \in 1..2 :
              /\ call[p].c[l] # Zeros(Len(call[p].c[l]))
              /\ call[p].h[l] # Zeros(Len(call[p].h[l]))

\* C18: the value of the sample produced at a step has been extracted when
\* the next step begins, and at most one extraction is awaited at a time.
C18_ExtractedBeforeNextStep ==
    \A p \in Procs :
        /\ \A j \in 1..Len(call[p].samples) :
              Len(call[p].trace) > call[p].length + j => j <= Len(call[p].outputs)
        /\ Cardinality(call[p].pending) <= 1

\* C18 as the code has it: no value is extracted before the loop has taken
\* all its length + steps steps; from then on the values are awaited one at
\* a time, in the order of the samples.
C18_ExtractedAfterLoop ==
    \A p \in Procs :
        /\ (call[p].outputs # <<>> \/ call[p].pending # {}) =>
              /\ call[p].pc \in {"await", "done"}
              /\ call[p].i = call[p].length + call[p].steps
              /\ Len(call[p].samples) = call[p].steps
        /\ Cardinality(call[p].pending) <= 1
        /\ call[p].pc = "await" => call[p].pending = {Len(call[p].outputs) + 1}
        /\ call[p].pc # "await" => call[p].pending = {}
        /\ Len(call[p].outputs) <= Len(call[p].samples)

C18_Witness ==
    \E p \in Procs :
        /\ call[p].pc = "await"
        /\ call[p].length = MaxLen
        /\ Len(call[p].samples) = MaxSteps
        /\ Len(call[p].outputs) = MaxSteps - 1
        /\ call[p].pending = {MaxSteps}

\* ------------------------------------------------------------- progress
\* A call in flight goes on: the loop is synchronous code that the engine
\* executes to its end, the promise of sample.data() resolves, and the
\* promise of the call settles.
Progress ==
    \E p \in Procs :
        LoopStep(p) \/ LoopExit(p) \/ SampleData(p) \/ Return(p)

Fairness == WF_vars(Progress)

\* One caller on an instance that initialize() loads once from a source
\* that serves every variable.
NextLoaded ==
    \/ Enter
    \/ \E p \in Procs : LoopStep(p)
    \/ \E p \in Procs : LoopExit(p)
    \/ \E p \in Procs : SampleData(p)
    \/ \E p \in Procs : Return(p)
    \/ InitializeOnce
    \/ GetAllVariablesResolve

FairSpec == InitLoadable /\ [][NextLoaded]_vars /\ Fairness

\* The steps of a call that has left its loop: length teacher-forcing
\* steps, then steps self-feeding ones.
StepsTaken(cl) ==
    /\ cl.i = cl.length + cl.steps
    /\ Len(cl.trace) = cl.length + cl.steps
    /\ \A k \in 1..cl.length : cl.trace[k].phase = "TeacherForcing"
    /\ \A k \in (cl.length + 1)..(cl.length + cl.steps) :
          cl.trace[k].phase = "SelfFeeding"

\* The logits of the all-zero initial state.
ZeroStateLogits(flds) ==
    LET n2 == Len(Value(flds["lstmBias2"])) \div 4
    IN Add(MatMul(Zeros(n2), Value(flds["lstmFcW"])), Value(flds["lstmFcB"]))

\* C19: a call on a loaded model that has entered its loop reaches Done,
\* and it does so after exactly length + steps cell steps, length of them
\* teacher-forcing and then steps self-feeding; with an empty melody the
\* first sample is selected from the logits of the all-zero state.
C19_Terminates ==
    /\ [](\A p \in Procs :
            /\ (call[p].pc \in {"await", "done"}) => StepsTaken(call[p])
            /\ (call[p].length = 0 /\ call[p].trace # <<>>) =>
                  call[p].trace[1].logits = ZeroStateLogits(call[p].used))
    /\ \A p \in Procs :
          (call[p].pc = "loop" /\ AllPresent(call[p].used))
              ~> (call[p].pc = "done")

C19_Witness ==
    \E p \in Procs :
        /\ call[p].pc = "done"
        /\ AllPresent(call[p].used)
        /\ call[p].length = 0
        /\ call[p].steps = MaxSteps
        /\ Len(call[p].trace) = MaxSteps
        /\ call[p].trace[1].logits = ZeroStateLogits(call[p].used)
        /\ call[p].outputs[1] = call[p].trace[1].idx

====
